---------------------------- MODULE Spec2Model ----------------------------
(***************************************************************************)
(* Model of the SDL platform adapter of STC (simple tetris clone),         *)
(* src/src/sdl/sdl_game.cpp: PlatformSdl::init, processEvents, drawTile,   *)
(* drawNumber, renderGame and end.                                         *)
(*                                                                         *)
(* The Game class (the Engine) and the header sdl_game.hpp are not part of *)
(* the source tree: the Engine is modelled as a record of the values its   *)
(* queries return, and the layout constants of the header are given the    *)
(* values below (no property depends on a particular value).               *)
(*                                                                         *)
(* Every platform or Engine call an operation issues is appended, in       *)
(* program order, to a trace (calls, events), so that properties about     *)
(* which calls happen, how often and in which order are state predicates.  *)
(***************************************************************************)
EXTENDS Integers, Sequences, FiniteSets, TLC

(***************************************************************************)
(* Bounds of the model.                                                    *)
(***************************************************************************)
\* longest pending input queue
MaxQueue == 2
\* largest shadowGap() the Engine reports
MaxGap == 2
\* largest digit count drawNumber is applied to in SpecNumber
MaxLength == 3
\* largest value drawNumber is applied to in SpecNumber
MaxNumber == 120
\* loop iterations counted in SpecLoop and SpecInit
MaxIter == 3
\* init() and end() calls made in SpecLife
MaxCalls == 3

(***************************************************************************)
(* Constants of game.hpp and sdl_game.hpp (not in the source tree).        *)
(***************************************************************************)
TETROMINO_SIZE == 4
BOARD_TILEMAP_WIDTH == 10
BOARD_TILEMAP_HEIGHT == 22
EMPTY_CELL == -1

COLOR_CYAN == 1
COLOR_RED == 2
COLOR_BLUE == 3
COLOR_ORANGE == 4
COLOR_GREEN == 5
COLOR_YELLOW == 6
COLOR_PURPLE == 7
COLOR_WHITE == 0

TETROMINO_I == 0
TETROMINO_O == 1
TETROMINO_T == 2
TETROMINO_S == 3
TETROMINO_Z == 4
TETROMINO_J == 5
TETROMINO_L == 6

ERROR_NONE == "ERROR_NONE"
ERROR_PLATFORM == "ERROR_PLATFORM"
ERROR_NO_VIDEO == "ERROR_NO_VIDEO"
ERROR_NO_IMAGES == "ERROR_NO_IMAGES"

TILE_SIZE == 12
BOARD_X == 180
BOARD_Y == 4
PREVIEW_X == 112
PREVIEW_Y == 210
NUMBER_WIDTH == 7
NUMBER_HEIGHT == 9
LEVEL_X == 108
LEVEL_Y == 16
LEVEL_LENGTH == 5
LINES_X == 108
LINES_Y == 34
LINES_LENGTH == 5
SCORE_X == 72
SCORE_Y == 52
SCORE_LENGTH == 10
TETROMINO_X == 425
TETROMINO_L_Y == 53
TETROMINO_I_Y == 77
TETROMINO_T_Y == 101
TETROMINO_S_Y == 125
TETROMINO_Z_Y == 149
TETROMINO_O_Y == 173
TETROMINO_J_Y == 197
TETROMINO_LENGTH == 5
PIECES_X == 418
PIECES_Y == 221
PIECES_LENGTH == 6
SLEEP_TIME == 40

(***************************************************************************)
(* C arithmetic.                                                           *)
(***************************************************************************)
\* the conversion (Sint16)v of an int
ToSint16(v) == ((v + 32768) % 65536) - 32768

\* a / b and a % b of C for b > 0: the quotient truncates toward zero
CDiv(a, b) == IF a >= 0 THEN a \div b ELSE -((-a) \div b)
CRem(a, b) == a - b * CDiv(a, b)

(***************************************************************************)
(* State.                                                                  *)
(***************************************************************************)
VARIABLES
    ghostBuilt,    \* the build defines STC_SHOW_GHOST_PIECE
    autoRotation,  \* the build defines STC_AUTO_ROTATION
    game,          \* the Engine: what its queries return, and its dirty flag
    calls,         \* calls issued by renderGame since the Engine last ran
    queue,         \* SDL's event queue: records SDL_PollEvent will return
    consumed,      \* records SDL_PollEvent returned to the last processEvents
    events,        \* onEventStart/onEventEnd calls of the last processEvents
    polls,         \* SDL_PollEvent calls of the last processEvents (0: none ran)
    held,          \* the keys that are physically down
    number,        \* the arguments of a drawNumber call (SpecNumber)
    glyphs,        \* the blits that drawNumber call issued (SpecNumber)
    env,           \* the environment: which platform calls of init() succeed
    plat,          \* the platform: subsystems and the handles of PlatformSdl
    steps,         \* the platform calls init() made, in order
    initResult,    \* what init() returned ("" before it ran)
    life,          \* the init() and end() calls made so far, in order
    releases,      \* the release calls end() made since the last init()
    iterations,    \* loop iterations run by the caller
    nSet,          \* times the Engine set its dirty flag while it was clear
    nQueryTrue,    \* hasChanged() queries answered true
    nAck,          \* onChangeProcessed() calls
    nFlip,         \* SDL_Flip calls
    nSleep         \* SDL_Delay calls

buildVars == <<ghostBuilt, autoRotation>>
renderVars == <<game, calls>>
inputVars == <<queue, consumed, events, polls, held>>
numberVars == <<number, glyphs>>
platVars == <<env, plat, steps, initResult, life, releases>>
counterVars == <<iterations, nSet, nQueryTrue, nAck, nFlip, nSleep>>

vars == <<buildVars, renderVars, inputVars, numberVars, platVars, counterVars>>

(***************************************************************************)
(* The Engine's state, as seen through its queries.                        *)
(***************************************************************************)
PieceCells == (0 .. TETROMINO_SIZE - 1) \X (0 .. TETROMINO_SIZE - 1)
BoardCells == (0 .. BOARD_TILEMAP_WIDTH - 1) \X (0 .. BOARD_TILEMAP_HEIGHT - 1)

\* a grid holding tile in the cells of occ and EMPTY_CELL elsewhere
Grid(cells, occ, tile) == [c \in cells |-> IF c \in occ THEN tile ELSE EMPTY_CELL]

\* grids the queries nextBlock(), fallingBlock() and getCell() may show
NextBlocks ==
    { Grid(PieceCells, {<<0, 1>>, <<1, 1>>, <<2, 1>>, <<3, 1>>}, COLOR_CYAN),
      Grid(PieceCells, {<<1, 1>>, <<2, 1>>, <<1, 2>>, <<2, 2>>}, COLOR_YELLOW) }

FallingBlocks ==
    { [cells |-> Grid(PieceCells, {<<0, 1>>, <<1, 1>>, <<2, 1>>, <<1, 2>>}, COLOR_PURPLE),
       x |-> 3, y |-> 0],
      [cells |-> Grid(PieceCells, {<<0, 1>>, <<1, 1>>, <<2, 1>>, <<2, 0>>}, COLOR_ORANGE),
       x |-> 6, y |-> 17] }

Boards ==
    { Grid(BoardCells, {}, COLOR_RED),
      [c \in BoardCells |->
          IF c[2] = BOARD_TILEMAP_HEIGHT - 1 /\ c[1] # 4 THEN COLOR_RED
          ELSE IF c[2] = BOARD_TILEMAP_HEIGHT - 2 /\ c[1] < 3 THEN COLOR_WHITE
          ELSE EMPTY_CELL] }

Shapes == {TETROMINO_I, TETROMINO_O, TETROMINO_T, TETROMINO_S,
           TETROMINO_Z, TETROMINO_J, TETROMINO_L}

StatsValues ==
    { [level |-> 0, lines |-> 0, score |-> 0, totalPieces |-> 0,
       pieces |-> [s \in Shapes |-> 0]],
      [level |-> 12, lines |-> 104, score |-> 98765, totalPieces |-> 28,
       pieces |-> [s \in Shapes |-> s + 1]] }

\* the states the Engine may be in when renderGame() runs
GameStates ==
    [changed : BOOLEAN, showPreview : BOOLEAN, showShadow : BOOLEAN,
     shadowGap : 0 .. MaxGap, isPaused : BOOLEAN, nextBlock : NextBlocks,
     fallingBlock : FallingBlocks, board : Boards, stats : StatsValues]

\* Game::onChangeProcessed(): the Engine clears its dirty flag
onChangeProcessed(g) == [g EXCEPT !.changed = FALSE]

(***************************************************************************)
(* Sprite atlas renderer.                                                  *)
(***************************************************************************)
\* SDL_BlitSurface(atlas, &recSource, mScreen, &recDestine)
Blit(atlas, sx, sy, sw, sh, dx, dy) ==
    [op |-> "SDL_BlitSurface", atlas |-> atlas,
     sx |-> sx, sy |-> sy, sw |-> sw, sh |-> sh, dx |-> dx, dy |-> dy]

\* PlatformSdl::drawTile: the one blit it issues
drawTile(x, y, tile, shadow) ==
    Blit("mBmpTiles",
         ToSint16(TILE_SIZE * tile),
         (TILE_SIZE + 1) * (IF shadow THEN 1 ELSE 0),
         TILE_SIZE + 1, TILE_SIZE + 1,
         ToSint16(x), ToSint16(y))

\* SDL_BlitSurface (SDL 1.2 SDL_UpperBlit) stores the clipped rectangle back
\* into the destination rectangle it is handed: with source row sy and
\* destination row dy, the row it leaves there. A source row above the atlas
\* moves the destination down by as much; a destination above the screen's
\* clip rectangle, which starts at row 0, is moved to row 0.
SDL_UpperBlitY(sy, dy) ==
    LET moved == IF sy < 0 THEN ToSint16(dy - sy) ELSE dy
    IN  IF moved < 0 THEN 0 ELSE moved

\* recDestine.y at the blit of position pos: drawNumber assigns it once,
\* before the loop, and every blit of the loop is handed the same rectangle
RECURSIVE recDestineY(_, _, _)
recDestineY(y, sy, pos) ==
    IF pos <= 0 THEN ToSint16(y)
    ELSE SDL_UpperBlitY(sy, recDestineY(y, sy, pos - 1))

\* the body of drawNumber's do-while loop, from position pos on
RECURSIVE drawNumberFrom(_, _, _, _, _, _)
drawNumberFrom(x, y, n, length, color, pos) ==
    LET blit == Blit("mBmpNumbers",
                     NUMBER_WIDTH * ToSint16(CRem(n, 10)),
                     ToSint16(NUMBER_HEIGHT * color),
                     NUMBER_WIDTH, NUMBER_HEIGHT,
                     ToSint16(x + NUMBER_WIDTH * (length - pos)),
                     recDestineY(y, ToSint16(NUMBER_HEIGHT * color), pos))
    IN  <<blit>> \o (IF pos + 1 < length
                     THEN drawNumberFrom(x, y, CDiv(n, 10), length, color, pos + 1)
                     ELSE <<>>)

\* a drawNumber that stops once no digit is left (no leading zeros)
RECURSIVE drawNumberFrom_NoZeros(_, _, _, _, _, _)
drawNumberFrom_NoZeros(x, y, n, length, color, pos) ==
    LET blit == Blit("mBmpNumbers",
                     NUMBER_WIDTH * ToSint16(CRem(n, 10)),
                     ToSint16(NUMBER_HEIGHT * color),
                     NUMBER_WIDTH, NUMBER_HEIGHT,
                     ToSint16(x + NUMBER_WIDTH * (length - pos)),
                     recDestineY(y, ToSint16(NUMBER_HEIGHT * color), pos))
    IN  <<blit>> \o (IF pos + 1 < length /\ CDiv(n, 10) # 0
                     THEN drawNumberFrom_NoZeros(x, y, CDiv(n, 10), length, color, pos + 1)
                     ELSE <<>>)

drawNumber_NoZeros(x, y, n, length, color) ==
    drawNumberFrom_NoZeros(x, y, n, length, color, 0)

\* a drawNumber that advances to the right
RECURSIVE drawNumberFrom_Rightward(_, _, _, _, _, _)
drawNumberFrom_Rightward(x, y, n, length, color, pos) ==
    LET blit == Blit("mBmpNumbers",
                     NUMBER_WIDTH * ToSint16(CRem(n, 10)),
                     ToSint16(NUMBER_HEIGHT * color),
                     NUMBER_WIDTH, NUMBER_HEIGHT,
                     ToSint16(x + NUMBER_WIDTH * pos),
                     recDestineY(y, ToSint16(NUMBER_HEIGHT * color), pos))
    IN  <<blit>> \o (IF pos + 1 < length
                     THEN drawNumberFrom_Rightward(x, y, CDiv(n, 10), length, color, pos + 1)
                     ELSE <<>>)

drawNumber_Rightward(x, y, n, length, color) ==
    drawNumberFrom_Rightward(x, y, n, length, color, 0)

\* PlatformSdl::drawNumber: the blits it issues, in order
drawNumber(x, y, n, length, color) == drawNumberFrom(x, y, n, length, color, 0)

(***************************************************************************)
(* Frame composer.  An entry of the trace is one call renderGame() makes:  *)
(* the hasChanged() query with its answer, a blit (tagged with the part of *)
(* the frame that issues it), onChangeProcessed(), SDL_Flip, SDL_Delay.    *)
(***************************************************************************)
\* the cells of a w x h grid in the order of the loops: i outer, j inner
CellsInOrder(w, h) == [k \in 1 .. w * h |-> <<(k - 1) \div h, (k - 1) % h>>]

Parts == {"preview", "ghost", "board", "falling"}

\* a drawTile call made for cell (i, j) of the grid of part p
TileCall(p, c, x, y, tile, shadow) ==
    [op |-> "drawTile", part |-> p, i |-> c[1], j |-> c[2],
     tile |-> tile, shadow |-> shadow, blit |-> drawTile(x, y, tile, shadow)]

\* the preview loop (lines 221-235)
PreviewCalls(g) ==
    IF g.showPreview
    THEN LET kept == SelectSeq(CellsInOrder(TETROMINO_SIZE, TETROMINO_SIZE),
                               LAMBDA c : g.nextBlock[c] # EMPTY_CELL)
         IN  [k \in 1 .. Len(kept) |->
                 TileCall("preview", kept[k],
                          PREVIEW_X + (TILE_SIZE * kept[k][1]),
                          PREVIEW_Y + (TILE_SIZE * kept[k][2]),
                          g.nextBlock[kept[k]], FALSE)]
    ELSE <<>>

\* a shadow loop that does not test the gap
ShadowCalls_NoGapTest(g) ==
    IF ghostBuilt /\ g.showShadow
    THEN LET fb == g.fallingBlock
             kept == SelectSeq(CellsInOrder(TETROMINO_SIZE, TETROMINO_SIZE),
                               LAMBDA c : fb.cells[c] # EMPTY_CELL)
         IN  [k \in 1 .. Len(kept) |->
                 TileCall("ghost", kept[k],
                          BOARD_X + (TILE_SIZE * (fb.x + kept[k][1])),
                          BOARD_Y + (TILE_SIZE * (fb.y + g.shadowGap + kept[k][2])),
                          fb.cells[kept[k]], TRUE)]
    ELSE <<>>

\* the shadow loop (lines 236-253), compiled in under STC_SHOW_GHOST_PIECE
ShadowCalls(g) ==
    IF ghostBuilt /\ g.showShadow /\ g.shadowGap > 0
    THEN LET fb == g.fallingBlock
             kept == SelectSeq(CellsInOrder(TETROMINO_SIZE, TETROMINO_SIZE),
                               LAMBDA c : fb.cells[c] # EMPTY_CELL)
         IN  [k \in 1 .. Len(kept) |->
                 TileCall("ghost", kept[k],
                          BOARD_X + (TILE_SIZE * (fb.x + kept[k][1])),
                          BOARD_Y + (TILE_SIZE * (fb.y + g.shadowGap + kept[k][2])),
                          fb.cells[kept[k]], TRUE)]
    ELSE <<>>

\* a board loop that forgets the EMPTY_CELL test
BoardCalls_NoSkip(g) ==
    LET kept == CellsInOrder(BOARD_TILEMAP_WIDTH, BOARD_TILEMAP_HEIGHT)
    IN  [k \in 1 .. Len(kept) |->
            TileCall("board", kept[k],
                     BOARD_X + (TILE_SIZE * kept[k][1]),
                     BOARD_Y + (TILE_SIZE * kept[k][2]),
                     g.board[kept[k]], FALSE)]

\* the board loop (lines 254-266)
BoardCalls(g) ==
    LET kept == SelectSeq(CellsInOrder(BOARD_TILEMAP_WIDTH, BOARD_TILEMAP_HEIGHT),
                          LAMBDA c : g.board[c] # EMPTY_CELL)
    IN  [k \in 1 .. Len(kept) |->
            TileCall("board", kept[k],
                     BOARD_X + (TILE_SIZE * kept[k][1]),
                     BOARD_Y + (TILE_SIZE * kept[k][2]),
                     g.board[kept[k]], FALSE)]

\* the falling tetromino loop (lines 268-280)
FallingCalls(g) ==
    LET fb == g.fallingBlock
        kept == SelectSeq(CellsInOrder(TETROMINO_SIZE, TETROMINO_SIZE),
                          LAMBDA c : fb.cells[c] # EMPTY_CELL)
    IN  [k \in 1 .. Len(kept) |->
            TileCall("falling", kept[k],
                     BOARD_X + (TILE_SIZE * (fb.x + kept[k][1])),
                     BOARD_Y + (TILE_SIZE * (fb.y + kept[k][2])),
                     fb.cells[kept[k]], FALSE)]

\* the n-th drawNumber call of the frame: one entry per blit it issues
NumberCall(n, field, x, y, value, length, color) ==
    LET blits == drawNumber(x, y, value, length, color)
    IN  [k \in 1 .. Len(blits) |->
            [op |-> "drawNumber", part |-> "hud", n |-> n, field |-> field,
             value |-> value, length |-> length, color |-> color,
             blit |-> blits[k]]]

\* statistics in which the counts of L and J are read from each other
StatsCalls_SwappedShapes(g) ==
    IF ~g.isPaused
    THEN LET st == g.stats
         IN  NumberCall(1, "level", LEVEL_X, LEVEL_Y, st.level, LEVEL_LENGTH, COLOR_WHITE)
          \o NumberCall(2, "lines", LINES_X, LINES_Y, st.lines, LINES_LENGTH, COLOR_WHITE)
          \o NumberCall(3, "score", SCORE_X, SCORE_Y, st.score, SCORE_LENGTH, COLOR_WHITE)
          \o NumberCall(4, "L", TETROMINO_X, TETROMINO_L_Y, st.pieces[TETROMINO_J],
                        TETROMINO_LENGTH, COLOR_ORANGE)
          \o NumberCall(5, "I", TETROMINO_X, TETROMINO_I_Y, st.pieces[TETROMINO_I],
                        TETROMINO_LENGTH, COLOR_CYAN)
          \o NumberCall(6, "T", TETROMINO_X, TETROMINO_T_Y, st.pieces[TETROMINO_T],
                        TETROMINO_LENGTH, COLOR_PURPLE)
          \o NumberCall(7, "S", TETROMINO_X, TETROMINO_S_Y, st.pieces[TETROMINO_S],
                        TETROMINO_LENGTH, COLOR_GREEN)
          \o NumberCall(8, "Z", TETROMINO_X, TETROMINO_Z_Y, st.pieces[TETROMINO_Z],
                        TETROMINO_LENGTH, COLOR_RED)
          \o NumberCall(9, "O", TETROMINO_X, TETROMINO_O_Y, st.pieces[TETROMINO_O],
                        TETROMINO_LENGTH, COLOR_YELLOW)
          \o NumberCall(10, "J", TETROMINO_X, TETROMINO_J_Y, st.pieces[TETROMINO_L],
                        TETROMINO_LENGTH, COLOR_BLUE)
          \o NumberCall(11, "totalPieces", PIECES_X, PIECES_Y, st.totalPieces,
                        PIECES_LENGTH, COLOR_WHITE)
    ELSE <<>>

\* the statistics (lines 282-298)
StatsCalls(g) ==
    IF ~g.isPaused
    THEN LET st == g.stats
         IN  NumberCall(1, "level", LEVEL_X, LEVEL_Y, st.level, LEVEL_LENGTH, COLOR_WHITE)
          \o NumberCall(2, "lines", LINES_X, LINES_Y, st.lines, LINES_LENGTH, COLOR_WHITE)
          \o NumberCall(3, "score", SCORE_X, SCORE_Y, st.score, SCORE_LENGTH, COLOR_WHITE)
          \o NumberCall(4, "L", TETROMINO_X, TETROMINO_L_Y, st.pieces[TETROMINO_L],
                        TETROMINO_LENGTH, COLOR_ORANGE)
          \o NumberCall(5, "I", TETROMINO_X, TETROMINO_I_Y, st.pieces[TETROMINO_I],
                        TETROMINO_LENGTH, COLOR_CYAN)
          \o NumberCall(6, "T", TETROMINO_X, TETROMINO_T_Y, st.pieces[TETROMINO_T],
                        TETROMINO_LENGTH, COLOR_PURPLE)
          \o NumberCall(7, "S", TETROMINO_X, TETROMINO_S_Y, st.pieces[TETROMINO_S],
                        TETROMINO_LENGTH, COLOR_GREEN)
          \o NumberCall(8, "Z", TETROMINO_X, TETROMINO_Z_Y, st.pieces[TETROMINO_Z],
                        TETROMINO_LENGTH, COLOR_RED)
          \o NumberCall(9, "O", TETROMINO_X, TETROMINO_O_Y, st.pieces[TETROMINO_O],
                        TETROMINO_LENGTH, COLOR_YELLOW)
          \o NumberCall(10, "J", TETROMINO_X, TETROMINO_J_Y, st.pieces[TETROMINO_J],
                        TETROMINO_LENGTH, COLOR_BLUE)
          \o NumberCall(11, "totalPieces", PIECES_X, PIECES_Y, st.totalPieces,
                        PIECES_LENGTH, COLOR_WHITE)
    ELSE <<>>

\* SDL_BlitSurface(mBmpBack, NULL, mScreen, NULL)
BackgroundCall == [op |-> "drawBackground", part |-> "background"]

\* a frame in which the falling tetromino is drawn before the board
FrameCalls_FallingBeforeBoard(g) ==
    <<BackgroundCall>>
    \o PreviewCalls(g) \o ShadowCalls(g) \o FallingCalls(g)
    \o BoardCalls(g) \o StatsCalls(g)

\* the drawing of one frame (lines 217-298)
FrameCalls(g) ==
    <<BackgroundCall>>
    \o PreviewCalls(g) \o ShadowCalls(g) \o BoardCalls(g)
    \o FallingCalls(g) \o StatsCalls(g)

\* a renderGame that redraws whether or not the Engine changed
renderGameCalls_Always(g) ==
    <<[op |-> "hasChanged", ret |-> g.changed]>>
    \o FrameCalls(g)
    \o <<[op |-> "onChangeProcessed"], [op |-> "SDL_Flip"]>>
    \o <<[op |-> "SDL_Delay", ms |-> SLEEP_TIME]>>

\* a renderGame with the flip moved out of the if block
renderGameCalls_FlipOutside(g) ==
    <<[op |-> "hasChanged", ret |-> g.changed]>>
    \o (IF g.changed
        THEN FrameCalls(g) \o <<[op |-> "onChangeProcessed"]>>
        ELSE <<>>)
    \o <<[op |-> "SDL_Flip"], [op |-> "SDL_Delay", ms |-> SLEEP_TIME]>>

\* a renderGame that rests only after it has drawn a frame
renderGameCalls_DelayInside(g) ==
    <<[op |-> "hasChanged", ret |-> g.changed]>>
    \o (IF g.changed
        THEN FrameCalls(g)
             \o <<[op |-> "onChangeProcessed"], [op |-> "SDL_Flip"],
                  [op |-> "SDL_Delay", ms |-> SLEEP_TIME]>>
        ELSE <<>>)

\* a renderGame that acknowledges the change before it draws
renderGameCalls_AckFirst(g) ==
    <<[op |-> "hasChanged", ret |-> g.changed]>>
    \o (IF g.changed
        THEN <<[op |-> "onChangeProcessed"]>>
             \o FrameCalls(g)
             \o <<[op |-> "SDL_Flip"]>>
        ELSE <<>>)
    \o <<[op |-> "SDL_Delay", ms |-> SLEEP_TIME]>>

\* PlatformSdl::renderGame: every call it makes when the Engine is g
renderGameCalls(g) ==
    <<[op |-> "hasChanged", ret |-> g.changed]>>
    \o (IF g.changed
        THEN FrameCalls(g)
             \o <<[op |-> "onChangeProcessed"], [op |-> "SDL_Flip"]>>
        ELSE <<>>)
    \o <<[op |-> "SDL_Delay", ms |-> SLEEP_TIME]>>

\* the Engine after renderGame(): acknowledged if renderGame called back
renderGameEngine(g, trace) ==
    IF \E k \in 1 .. Len(trace) : trace[k].op = "onChangeProcessed"
    THEN onChangeProcessed(g)
    ELSE g

\* how often op occurs in a trace
Count(trace, op) == Cardinality({k \in 1 .. Len(trace) : trace[k].op = op})

\* renderGame() as one step
RenderGame ==
    /\ calls' = renderGameCalls(game)
    /\ game' = renderGameEngine(game, calls')
    /\ UNCHANGED <<buildVars, inputVars, numberVars, platVars>>

\* the Engine runs between two renderGame() calls and changes its state to
\* one of S, setting its dirty flag
EngineChangeTo(S) ==
    /\ \E g \in S : g.changed /\ game' = g
    /\ calls' = <<>>
    /\ UNCHANGED <<buildVars, inputVars, numberVars, platVars>>

\* the Engine runs between two renderGame() calls and changes nothing
EngineIdle ==
    /\ calls # <<>>
    /\ calls' = <<>>
    /\ UNCHANGED <<game, buildVars, inputVars, numberVars, platVars>>

NoCounters == UNCHANGED counterVars

(***************************************************************************)
(* Resource lifecycle.  env tells, for each platform call of init() that   *)
(* can fail, whether it succeeds.  A handle of PlatformSdl is "uninit"     *)
(* before init() assigns it, then "live" or "NULL", and "freed" (dangling) *)
(* once what it points to was released.                                    *)
(***************************************************************************)
PlatformCalls ==
    {"SDL_Init", "SDL_SetVideoMode", "IMG_Load_tiles", "IMG_Load_back",
     "IMG_Load_numbers", "Mix_OpenAudio", "Mix_LoadMUS", "Mix_LoadWAV_line",
     "Mix_LoadWAV_drop"}

\* the PlatformSdl object before init()
NewPlatform ==
    [sdl |-> FALSE, mixer |-> FALSE, musicPlaying |-> FALSE,
     mScreen |-> "uninit", mBmpTiles |-> "uninit", mBmpBack |-> "uninit",
     mBmpNumbers |-> "uninit", mMusic |-> "uninit", mSoundLine |-> "uninit",
     mSoundDrop |-> "uninit", mGame |-> "uninit", crashed |-> FALSE]

\* what a loading call returns
Loaded(e, c) == IF e[c] THEN "live" ELSE "NULL"

\* a platform call of init() and whether it succeeded
Step(c, ok) == [call |-> c, ok |-> ok]

\* PlatformSdl::init on the object p in the environment e: the object
\* after it, the platform calls it made and the status it returns
initRun(p, e) ==
    LET s1 == <<Step("SDL_Init", e["SDL_Init"])>>
        p2 == [p EXCEPT !.sdl = TRUE,
                        !.mScreen = Loaded(e, "SDL_SetVideoMode")]
        s2 == s1 \o <<Step("SDL_SetVideoMode", e["SDL_SetVideoMode"])>>
        p3 == [p2 EXCEPT !.mBmpTiles = Loaded(e, "IMG_Load_tiles"),
                         !.mBmpBack = Loaded(e, "IMG_Load_back"),
                         !.mBmpNumbers = Loaded(e, "IMG_Load_numbers")]
        s3 == s2 \o <<Step("IMG_Load_tiles", e["IMG_Load_tiles"]),
                      Step("IMG_Load_back", e["IMG_Load_back"]),
                      Step("IMG_Load_numbers", e["IMG_Load_numbers"])>>
        p4 == [p3 EXCEPT !.mixer = TRUE]
        s4 == s3 \o <<Step("Mix_OpenAudio", e["Mix_OpenAudio"])>>
        p5 == [p4 EXCEPT !.mMusic = Loaded(e, "Mix_LoadMUS"),
                         !.mSoundLine = Loaded(e, "Mix_LoadWAV_line"),
                         !.mSoundDrop = Loaded(e, "Mix_LoadWAV_drop"),
                         !.musicPlaying = e["Mix_LoadMUS"],
                         !.mGame = "game"]
        s5 == s4 \o <<Step("Mix_LoadMUS", e["Mix_LoadMUS"]),
                      Step("Mix_LoadWAV_line", e["Mix_LoadWAV_line"]),
                      Step("Mix_LoadWAV_drop", e["Mix_LoadWAV_drop"]),
                      Step("Mix_PlayMusic", e["Mix_LoadMUS"])>>
    IN  IF ~e["SDL_Init"]
        THEN [plat |-> p, steps |-> s1, result |-> ERROR_PLATFORM]
        ELSE IF p2.mScreen = "NULL"
        THEN [plat |-> p2, steps |-> s2, result |-> ERROR_NO_VIDEO]
        ELSE IF p3.mBmpTiles = "NULL" \/ p3.mBmpBack = "NULL"
                \/ p3.mBmpNumbers = "NULL"
        THEN [plat |-> p3, steps |-> s3, result |-> ERROR_NO_IMAGES]
        ELSE IF ~e["Mix_OpenAudio"]
        THEN [plat |-> p3, steps |-> s4, result |-> ERROR_PLATFORM]
        ELSE [plat |-> p5, steps |-> s5, result |-> ERROR_NONE]

\* a call of init()
InitCall ==
    /\ LET run == initRun(plat, env)
       IN  /\ plat' = run.plat
           /\ steps' = run.steps
           /\ initResult' = run.result
    /\ life' = Append(life, "init")
    /\ releases' = <<>>
    /\ UNCHANGED <<env, buildVars, renderVars, inputVars, numberVars>>

\* init() as one step, on the new object
InitPlatform ==
    /\ initResult = ""
    /\ InitCall

\* a release call of end() and the state of what it was applied to
Release(c, target, was) == [call |-> c, target |-> target, was |-> was]

\* SDL_FreeSurface(h): SDL ignores NULL and frees a live surface; the
\* handle keeps its value, so it dangles afterwards
Freed(h) == IF h = "live" THEN "freed" ELSE h

\* PlatformSdl::end on the object p: the object after it, the release
\* calls it made, and whether one of them has undefined behaviour (a free
\* of an uninitialized or dangling pointer).  SDL_FreeSurface leaves the
\* display surface to SDL_Quit while the video subsystem is up.
endRun(p) ==
    LET screenAfter == IF p.sdl /\ p.mScreen = "live" THEN "freed"
                       ELSE Freed(p.mScreen)
    IN  [plat |-> [p EXCEPT !.mBmpTiles = Freed(p.mBmpTiles),
                            !.mBmpBack = Freed(p.mBmpBack),
                            !.mBmpNumbers = Freed(p.mBmpNumbers),
                            !.mScreen = screenAfter,
                            !.mixer = FALSE,
                            !.musicPlaying = FALSE,
                            !.sdl = FALSE],
         releases |->
            <<Release("SDL_FreeSurface", "mBmpTiles", p.mBmpTiles),
              Release("SDL_FreeSurface", "mBmpBack", p.mBmpBack),
              Release("SDL_FreeSurface", "mBmpNumbers", p.mBmpNumbers),
              Release("SDL_FreeSurface", "mScreen", p.mScreen),
              Release("Mix_CloseAudio", "mixer",
                      IF p.mixer THEN "open" ELSE "closed"),
              Release("SDL_Quit", "SDL", IF p.sdl THEN "up" ELSE "down")>>,
         undefined |->
            \E h \in {p.mBmpTiles, p.mBmpBack, p.mBmpNumbers, p.mScreen} :
                h \in {"uninit", "freed"}]

\* end() as one step; after undefined behaviour the process may have
\* crashed or may go on
EndPlatform ==
    /\ LET run == endRun(plat)
       IN  /\ \E crash \in {FALSE, run.undefined} :
                  plat' = [run.plat EXCEPT !.crashed = crash]
           /\ releases' = releases \o run.releases
    /\ life' = Append(life, "end")
    /\ UNCHANGED <<env, steps, initResult>>
    /\ UNCHANGED <<buildVars, renderVars, inputVars, numberVars>>

\* the caller starts the loop only when init() returned ERROR_NONE; one
\* iteration of it
LoopIteration ==
    /\ initResult = ERROR_NONE
    /\ iterations < MaxIter
    /\ iterations' = iterations + 1
    /\ UNCHANGED <<nSet, nQueryTrue, nAck, nFlip, nSleep>>
    /\ UNCHANGED <<buildVars, renderVars, inputVars, numberVars, platVars>>

\* an Engine that has not changed since its frame was acknowledged
InitialGame ==
    [changed |-> FALSE, showPreview |-> TRUE, showShadow |-> FALSE,
     shadowGap |-> 0, isPaused |-> FALSE,
     nextBlock |-> CHOOSE b \in NextBlocks : TRUE,
     fallingBlock |-> CHOOSE b \in FallingBlocks : TRUE,
     board |-> Grid(BoardCells, {}, COLOR_RED),
     stats |-> [level |-> 0, lines |-> 0, score |-> 0, totalPieces |-> 0,
                pieces |-> [s \in Shapes |-> 0]]]

\* the parts of the state an operation under study does not use
IdleRender == game = InitialGame /\ calls = <<>>
IdleInput ==
    /\ queue = <<>> /\ consumed = <<>> /\ events = <<>>
    /\ polls = 0 /\ held = {}
IdleNumber == number = <<>> /\ glyphs = <<>>
IdlePlatform ==
    /\ env = [c \in PlatformCalls |-> TRUE]
    /\ plat = NewPlatform /\ steps = <<>> /\ initResult = ""
    /\ life = <<>> /\ releases = <<>>
IdleCounters ==
    /\ iterations = 0 /\ nSet = 0 /\ nQueryTrue = 0 /\ nAck = 0 /\ nFlip = 0
    /\ nSleep = 0

(***************************************************************************)
(* SpecRender: renderGame() against every Engine state of GameStates.      *)
(***************************************************************************)
InitRender ==
    /\ ghostBuilt \in BOOLEAN
    /\ autoRotation = FALSE
    /\ IdleRender /\ IdleInput /\ IdleNumber /\ IdlePlatform /\ IdleCounters

NextRender ==
    \/ RenderGame /\ NoCounters
    \/ EngineChangeTo(GameStates) /\ NoCounters
    \/ EngineIdle /\ NoCounters

SpecRender == InitRender /\ [][NextRender]_vars

(***************************************************************************)
(* Input event mapper.  A record of SDL's queue is [type, sym]; sym is the *)
(* key of a keyboard record and "" otherwise.  An event delivered to the   *)
(* Engine is [phase, type]: onEventStart(type) or onEventEnd(type).        *)
(***************************************************************************)
Keys == {"SDLK_ESCAPE", "SDLK_s", "SDLK_DOWN", "SDLK_w", "SDLK_UP", "SDLK_a",
         "SDLK_LEFT", "SDLK_d", "SDLK_RIGHT", "SDLK_SPACE", "SDLK_F5",
         "SDLK_F1", "SDLK_F2", "SDLK_F3", "SDLK_x"}

InputRecords ==
    [type : {"SDL_KEYDOWN", "SDL_KEYUP"}, sym : Keys]
    \cup [type : {"SDL_QUIT", "SDL_MOUSEMOTION"}, sym : {""}]

onEventStart(t) == [phase |-> "START", type |-> t]
onEventEnd(t) == [phase |-> "END", type |-> t]

\* a switch whose key-up cases name the arrow keys only
handleEvent_ArrowKeyUpOnly(e) ==
    CASE e.type = "SDL_QUIT" -> <<onEventStart("EVENT_QUIT")>>
      [] e.type = "SDL_KEYDOWN" ->
           (CASE e.sym = "SDLK_ESCAPE" -> <<onEventStart("EVENT_QUIT")>>
              [] e.sym \in {"SDLK_s", "SDLK_DOWN"} -> <<onEventStart("EVENT_MOVE_DOWN")>>
              [] e.sym \in {"SDLK_w", "SDLK_UP"} -> <<onEventStart("EVENT_ROTATE_CW")>>
              [] e.sym \in {"SDLK_a", "SDLK_LEFT"} -> <<onEventStart("EVENT_MOVE_LEFT")>>
              [] e.sym \in {"SDLK_d", "SDLK_RIGHT"} -> <<onEventStart("EVENT_MOVE_RIGHT")>>
              [] e.sym = "SDLK_SPACE" -> <<onEventStart("EVENT_DROP")>>
              [] e.sym = "SDLK_F5" -> <<onEventStart("EVENT_RESTART")>>
              [] e.sym = "SDLK_F1" -> <<onEventStart("EVENT_PAUSE")>>
              [] e.sym = "SDLK_F2" -> <<onEventStart("EVENT_SHOW_NEXT")>>
              [] ghostBuilt /\ e.sym = "SDLK_F3" -> <<onEventStart("EVENT_SHOW_SHADOW")>>
              [] OTHER -> <<>>)
      [] e.type = "SDL_KEYUP" ->
           (CASE e.sym = "SDLK_DOWN" -> <<onEventEnd("EVENT_MOVE_DOWN")>>
              [] e.sym = "SDLK_LEFT" -> <<onEventEnd("EVENT_MOVE_LEFT")>>
              [] e.sym = "SDLK_RIGHT" -> <<onEventEnd("EVENT_MOVE_RIGHT")>>
              [] autoRotation /\ e.sym = "SDLK_UP" -> <<onEventEnd("EVENT_ROTATE_CW")>>
              [] OTHER -> <<>>)
      [] OTHER -> <<>>

\* a switch in which the case of F1 has lost its break
handleEvent_F1FallsThrough(e) ==
    CASE e.type = "SDL_QUIT" -> <<onEventStart("EVENT_QUIT")>>
      [] e.type = "SDL_KEYDOWN" ->
           (CASE e.sym = "SDLK_ESCAPE" -> <<onEventStart("EVENT_QUIT")>>
              [] e.sym \in {"SDLK_s", "SDLK_DOWN"} -> <<onEventStart("EVENT_MOVE_DOWN")>>
              [] e.sym \in {"SDLK_w", "SDLK_UP"} -> <<onEventStart("EVENT_ROTATE_CW")>>
              [] e.sym \in {"SDLK_a", "SDLK_LEFT"} -> <<onEventStart("EVENT_MOVE_LEFT")>>
              [] e.sym \in {"SDLK_d", "SDLK_RIGHT"} -> <<onEventStart("EVENT_MOVE_RIGHT")>>
              [] e.sym = "SDLK_SPACE" -> <<onEventStart("EVENT_DROP")>>
              [] e.sym = "SDLK_F5" -> <<onEventStart("EVENT_RESTART")>>
              [] e.sym = "SDLK_F1" -> <<onEventStart("EVENT_PAUSE"),
                                        onEventStart("EVENT_SHOW_NEXT")>>
              [] e.sym = "SDLK_F2" -> <<onEventStart("EVENT_SHOW_NEXT")>>
              [] ghostBuilt /\ e.sym = "SDLK_F3" -> <<onEventStart("EVENT_SHOW_SHADOW")>>
              [] OTHER -> <<>>)
      [] e.type = "SDL_KEYUP" ->
           (CASE e.sym \in {"SDLK_s", "SDLK_DOWN"} -> <<onEventEnd("EVENT_MOVE_DOWN")>>
              [] e.sym \in {"SDLK_a", "SDLK_LEFT"} -> <<onEventEnd("EVENT_MOVE_LEFT")>>
              [] e.sym \in {"SDLK_d", "SDLK_RIGHT"} -> <<onEventEnd("EVENT_MOVE_RIGHT")>>
              [] autoRotation /\ e.sym \in {"SDLK_w", "SDLK_UP"} ->
                   <<onEventEnd("EVENT_ROTATE_CW")>>
              [] OTHER -> <<>>)
      [] OTHER -> <<>>

\* the body of the loop of processEvents (lines 92-169): the Engine calls
\* made for one record
handleEvent(e) ==
    CASE e.type = "SDL_QUIT" -> <<onEventStart("EVENT_QUIT")>>
      [] e.type = "SDL_KEYDOWN" ->
           (CASE e.sym = "SDLK_ESCAPE" -> <<onEventStart("EVENT_QUIT")>>
              [] e.sym \in {"SDLK_s", "SDLK_DOWN"} -> <<onEventStart("EVENT_MOVE_DOWN")>>
              [] e.sym \in {"SDLK_w", "SDLK_UP"} -> <<onEventStart("EVENT_ROTATE_CW")>>
              [] e.sym \in {"SDLK_a", "SDLK_LEFT"} -> <<onEventStart("EVENT_MOVE_LEFT")>>
              [] e.sym \in {"SDLK_d", "SDLK_RIGHT"} -> <<onEventStart("EVENT_MOVE_RIGHT")>>
              [] e.sym = "SDLK_SPACE" -> <<onEventStart("EVENT_DROP")>>
              [] e.sym = "SDLK_F5" -> <<onEventStart("EVENT_RESTART")>>
              [] e.sym = "SDLK_F1" -> <<onEventStart("EVENT_PAUSE")>>
              [] e.sym = "SDLK_F2" -> <<onEventStart("EVENT_SHOW_NEXT")>>
              [] ghostBuilt /\ e.sym = "SDLK_F3" -> <<onEventStart("EVENT_SHOW_SHADOW")>>
              [] OTHER -> <<>>)
      [] e.type = "SDL_KEYUP" ->
           (CASE e.sym \in {"SDLK_s", "SDLK_DOWN"} -> <<onEventEnd("EVENT_MOVE_DOWN")>>
              [] e.sym \in {"SDLK_a", "SDLK_LEFT"} -> <<onEventEnd("EVENT_MOVE_LEFT")>>
              [] e.sym \in {"SDLK_d", "SDLK_RIGHT"} -> <<onEventEnd("EVENT_MOVE_RIGHT")>>
              [] autoRotation /\ e.sym \in {"SDLK_w", "SDLK_UP"} ->
                   <<onEventEnd("EVENT_ROTATE_CW")>>
              [] OTHER -> <<>>)
      [] OTHER -> <<>>

\* a loop that skips a record equal to the one polled before it
RECURSIVE processEventsFrom_Coalesce(_, _)
processEventsFrom_Coalesce(q, last) ==
    IF q = <<>>
    THEN [polled |-> <<>>, delivered |-> <<>>, left |-> <<>>, polls |-> 1]
    ELSE LET rest == processEventsFrom_Coalesce(Tail(q), <<Head(q)>>)
         IN  [polled |-> <<Head(q)>> \o rest.polled,
              delivered |-> (IF last = <<Head(q)>> THEN <<>> ELSE handleEvent(Head(q)))
                            \o rest.delivered,
              left |-> rest.left,
              polls |-> rest.polls + 1]

processEventsRun_Coalesce(q) == processEventsFrom_Coalesce(q, <<>>)

\* an if in place of the while: one SDL_PollEvent per call
processEventsRun_OnePerCall(q) ==
    IF q = <<>>
    THEN [polled |-> <<>>, delivered |-> <<>>, left |-> <<>>, polls |-> 1]
    ELSE [polled |-> <<Head(q)>>, delivered |-> handleEvent(Head(q)),
          left |-> Tail(q), polls |-> 1]

\* a loop that leaves once it has forwarded a quit
RECURSIVE processEventsRun_StopAtQuit(_)
processEventsRun_StopAtQuit(q) ==
    IF q = <<>>
    THEN [polled |-> <<>>, delivered |-> <<>>, left |-> <<>>, polls |-> 1]
    ELSE IF onEventStart("EVENT_QUIT") \in {handleEvent(Head(q))[k] :
                                            k \in 1 .. Len(handleEvent(Head(q)))}
    THEN [polled |-> <<Head(q)>>, delivered |-> handleEvent(Head(q)),
          left |-> Tail(q), polls |-> 1]
    ELSE LET rest == processEventsRun_StopAtQuit(Tail(q))
         IN  [polled |-> <<Head(q)>> \o rest.polled,
              delivered |-> handleEvent(Head(q)) \o rest.delivered,
              left |-> rest.left,
              polls |-> rest.polls + 1]

\* the loop while (SDL_PollEvent(&event)) over the queue q: the records
\* polled, the Engine calls made, what is left in the queue, and the number
\* of SDL_PollEvent calls (the last one is the call that returned 0)
RECURSIVE processEventsRun(_)
processEventsRun(q) ==
    IF q = <<>>
    THEN [polled |-> <<>>, delivered |-> <<>>, left |-> <<>>, polls |-> 1]
    ELSE LET rest == processEventsRun(Tail(q))
         IN  [polled |-> <<Head(q)>> \o rest.polled,
              delivered |-> handleEvent(Head(q)) \o rest.delivered,
              left |-> rest.left,
              polls |-> rest.polls + 1]

\* processEvents() as one step
ProcessEvents ==
    /\ LET run == processEventsRun(queue)
       IN  /\ consumed' = run.polled
           /\ events' = run.delivered
           /\ queue' = run.left
           /\ polls' = run.polls
    /\ UNCHANGED <<held, buildVars, renderVars, numberVars, platVars>>

\* SDL queues a record of the set S; the traces of the last processEvents()
\* are dropped
PushEventOf(S) ==
    /\ Len(queue) < MaxQueue
    /\ \E r \in S : queue' = Append(queue, r)
    /\ consumed' = <<>>
    /\ events' = <<>>
    /\ polls' = 0
    /\ UNCHANGED <<held, buildVars, renderVars, numberVars, platVars>>

PushEvent == PushEventOf(InputRecords)

\* the keys with an alias for the same held action
AliasKeys == {"SDLK_DOWN", "SDLK_s", "SDLK_LEFT", "SDLK_a", "SDLK_RIGHT", "SDLK_d"}

\* the player presses a key that is up or lets go of one that is down, and
\* SDL queues the key-down or key-up record of that transition
KeyTransition ==
    /\ Len(queue) < MaxQueue
    /\ \E k \in AliasKeys :
          IF k \in held
          THEN /\ held' = held \ {k}
               /\ queue' = Append(queue, [type |-> "SDL_KEYUP", sym |-> k])
          ELSE /\ held' = held \cup {k}
               /\ queue' = Append(queue, [type |-> "SDL_KEYDOWN", sym |-> k])
    /\ consumed' = <<>>
    /\ events' = <<>>
    /\ polls' = 0
    /\ UNCHANGED <<buildVars, renderVars, numberVars, platVars>>

(***************************************************************************)
(* SpecInput: processEvents() against every queue of up to MaxQueue        *)
(* records, in each of the four builds.                                    *)
(***************************************************************************)
InitInput ==
    /\ ghostBuilt \in BOOLEAN
    /\ autoRotation \in BOOLEAN
    /\ IdleRender /\ IdleInput /\ IdleNumber /\ IdlePlatform /\ IdleCounters

NextInput ==
    \/ ProcessEvents /\ NoCounters
    \/ PushEvent /\ NoCounters

SpecInput == InitInput /\ [][NextInput]_vars

(***************************************************************************)
(* SpecInit: init() in every environment, then the caller's loop.          *)
(***************************************************************************)
InitInit ==
    /\ ghostBuilt = FALSE
    /\ autoRotation = FALSE
    /\ env \in [PlatformCalls -> BOOLEAN]
    /\ plat = NewPlatform /\ steps = <<>> /\ initResult = ""
    /\ life = <<>> /\ releases = <<>>
    /\ IdleRender /\ IdleInput /\ IdleNumber /\ IdleCounters

NextInit ==
    \/ InitPlatform /\ NoCounters
    \/ LoopIteration

SpecInit == InitInit /\ [][NextInit]_vars

(***************************************************************************)
(* SpecLife: up to MaxCalls calls of init() and end(), in any order after  *)
(* a first init(), in every environment.                                   *)
(***************************************************************************)
InitLife == InitInit

NextLife ==
    \/ /\ Len(life) < MaxCalls
       /\ ~plat.crashed
       /\ InitCall
       /\ NoCounters
    \/ /\ Len(life) < MaxCalls
       /\ life # <<>>
       /\ ~plat.crashed
       /\ EndPlatform
       /\ NoCounters

SpecLife == InitLife /\ [][NextLife]_vars

(***************************************************************************)
(* SpecLoop: up to MaxIter renderGame() calls interleaved with changes of  *)
(* the Engine, with the queries, acknowledgments and flips counted.        *)
(***************************************************************************)
LoopGameStates ==
    {g \in GameStates :
        /\ g.isPaused /\ g.shadowGap = 0
        /\ g.fallingBlock = InitialGame.fallingBlock
        /\ g.stats = InitialGame.stats}

\* a change of the Engine, counted when it sets a flag that was clear
CountedEngineChange ==
    /\ EngineChangeTo(LoopGameStates)
    /\ nSet' = IF game.changed THEN nSet ELSE nSet + 1
    /\ UNCHANGED <<iterations, nQueryTrue, nAck, nFlip, nSleep>>

\* a renderGame() call, with what it did counted
CountedRenderGame ==
    /\ iterations < MaxIter
    /\ RenderGame
    /\ iterations' = iterations + 1
    /\ nQueryTrue' = nQueryTrue + (IF game.changed THEN 1 ELSE 0)
    /\ nAck' = nAck + Count(calls', "onChangeProcessed")
    /\ nFlip' = nFlip + Count(calls', "SDL_Flip")
    /\ nSleep' = nSleep + Count(calls', "SDL_Delay")
    /\ UNCHANGED nSet

InitLoop ==
    /\ ghostBuilt = FALSE
    /\ autoRotation = FALSE
    /\ IdleRender /\ IdleInput /\ IdleNumber /\ IdlePlatform /\ IdleCounters

NextLoop ==
    \/ CountedRenderGame
    \/ CountedEngineChange
    \/ EngineIdle /\ NoCounters

SpecLoop == InitLoop /\ [][NextLoop]_vars

(***************************************************************************)
(* SpecNumber: drawNumber() applied to arguments drawn from bounded sets:  *)
(* positions of the HUD, values of fewer, as many and more digits than the *)
(* field, and every digit count from 1 to MaxLength.                       *)
(***************************************************************************)
NumberArgs ==
    [x : {LEVEL_X, TETROMINO_X}, y : {LEVEL_Y}, value : 0 .. MaxNumber,
     length : 1 .. MaxLength, color : {COLOR_WHITE, COLOR_ORANGE}]

InitNumber ==
    /\ ghostBuilt = FALSE
    /\ autoRotation = FALSE
    /\ number \in NumberArgs
    /\ glyphs = <<>>
    /\ IdleRender /\ IdleInput /\ IdlePlatform /\ IdleCounters

\* one drawNumber call
DrawNumber ==
    /\ glyphs = <<>>
    /\ glyphs' = drawNumber(number.x, number.y, number.value, number.length,
                            number.color)
    /\ UNCHANGED <<buildVars, renderVars, inputVars, number, platVars>>

NextNumber == DrawNumber /\ NoCounters

SpecNumber == InitNumber /\ [][NextNumber]_vars

(***************************************************************************)
(* Properties of renderGame() (SpecRender).                                *)
(***************************************************************************)
\* the last renderGame() call found the Engine changed / unchanged
SawChanged == calls # <<>> /\ calls[1].ret
SawUnchanged == calls # <<>> /\ ~calls[1].ret

IsBlit(e) == e.op \in {"drawBackground", "drawTile", "drawNumber"}

\* the positions of the entries of calls that satisfy a test
Where(Test(_)) == {k \in 1 .. Len(calls) : Test(calls[k])}

\* C1: a renderGame() call in which hasChanged() returns false issues no
\* blit (background, tile or digit), no onChangeProcessed() and no flip,
\* whatever the other queries of the Engine return.
C1_UnchangedIssuesNothing ==
    SawUnchanged =>
        \A k \in 1 .. Len(calls) :
            /\ ~IsBlit(calls[k])
            /\ calls[k].op # "onChangeProcessed"
            /\ calls[k].op # "SDL_Flip"

\* an idle pass over an Engine that shows preview, ghost, statistics and a
\* board with locked cells
C1_Witness ==
    /\ SawUnchanged
    /\ game.showPreview /\ game.showShadow /\ game.shadowGap > 0
    /\ ~game.isPaused /\ ghostBuilt
    /\ \E c \in BoardCells : game.board[c] # EMPTY_CELL

\* C2: a renderGame() call in which hasChanged() returns true calls
\* onChangeProcessed() exactly once, after every blit of the frame, and
\* flips the buffer exactly once, after the acknowledgment.
C2_AckAfterBlitsBeforeFlip ==
    SawChanged =>
        /\ Count(calls, "onChangeProcessed") = 1
        /\ Count(calls, "SDL_Flip") = 1
        /\ \A a \in Where(LAMBDA e : e.op = "onChangeProcessed") :
              /\ \A b \in Where(IsBlit) : b < a
              /\ \A f \in Where(LAMBDA e : e.op = "SDL_Flip") : a < f

\* a frame with a blit of every kind: background, preview, ghost, board,
\* falling piece and digits
C2_Witness ==
    /\ SawChanged
    /\ \A p \in Parts \cup {"background", "hud"} :
          \E k \in 1 .. Len(calls) : IsBlit(calls[k]) /\ calls[k].part = p

\* the grid renderGame() reads for a part of the frame
GridOf(p) ==
    CASE p = "preview" -> game.nextBlock
      [] p = "board" -> game.board
      [] OTHER -> game.fallingBlock.cells

\* the drawTile calls of the last frame for cell c of part p
TileCallsAt(p, c) ==
    {k \in 1 .. Len(calls) :
        /\ calls[k].op = "drawTile"
        /\ calls[k].part = p /\ calls[k].i = c[1] /\ calls[k].j = c[2]}

\* part p was drawn in the last frame: the board and the falling piece
\* always are, the preview and the ghost when a tile of theirs was
PartDrawn(p) ==
    \/ p \in {"board", "falling"}
    \/ \E k \in 1 .. Len(calls) : calls[k].op = "drawTile" /\ calls[k].part = p

SourceRect(b) == <<b.sx, b.sy, b.sw, b.sh>>

\* C6: in a rendering pass an EMPTY_CELL of a grid causes no drawTile call,
\* a non-empty cell of a drawn grid causes exactly one, for its own tile;
\* its ghost flag is set only for the ghost grid, and its source rectangle
\* depends only on the tile identifier and on that flag.
C6_OneTilePerNonEmptyCell ==
    SawChanged =>
        /\ \A p \in Parts : \A c \in DOMAIN GridOf(p) :
              IF GridOf(p)[c] = EMPTY_CELL
              THEN TileCallsAt(p, c) = {}
              ELSE /\ PartDrawn(p) => Cardinality(TileCallsAt(p, c)) = 1
                   /\ \A k \in TileCallsAt(p, c) :
                         /\ calls[k].tile = GridOf(p)[c]
                         /\ calls[k].shadow = (p = "ghost")
        /\ \A k1, k2 \in Where(LAMBDA e : e.op = "drawTile") :
              (calls[k1].tile = calls[k2].tile
                  /\ (calls[k1].part = "ghost") = (calls[k2].part = "ghost"))
              => SourceRect(calls[k1].blit) = SourceRect(calls[k2].blit)

\* a frame in which all four grids are drawn over a board that has locked
\* and empty cells
C6_Witness ==
    /\ SawChanged
    /\ \A p \in Parts : \E c \in DOMAIN GridOf(p) : TileCallsAt(p, c) # {}
    /\ \E c \in BoardCells : game.board[c] = EMPTY_CELL

\* the statistic each numeral of the HUD shows, with its colour
HudTable ==
    {<<"level", COLOR_WHITE, game.stats.level>>,
     <<"lines", COLOR_WHITE, game.stats.lines>>,
     <<"score", COLOR_WHITE, game.stats.score>>,
     <<"totalPieces", COLOR_WHITE, game.stats.totalPieces>>,
     <<"L", COLOR_ORANGE, game.stats.pieces[TETROMINO_L]>>,
     <<"I", COLOR_CYAN, game.stats.pieces[TETROMINO_I]>>,
     <<"T", COLOR_PURPLE, game.stats.pieces[TETROMINO_T]>>,
     <<"S", COLOR_GREEN, game.stats.pieces[TETROMINO_S]>>,
     <<"Z", COLOR_RED, game.stats.pieces[TETROMINO_Z]>>,
     <<"O", COLOR_YELLOW, game.stats.pieces[TETROMINO_O]>>,
     <<"J", COLOR_BLUE, game.stats.pieces[TETROMINO_J]>>}

\* the positions of the digit blits of the last frame
DigitBlits == Where(LAMBDA e : e.op = "drawNumber")

\* the cells of part p for which the last frame has a drawTile call
CellsDrawn(p) ==
    {<<calls[k].i, calls[k].j>> :
        k \in {m \in 1 .. Len(calls) :
                  calls[m].op = "drawTile" /\ calls[m].part = p}}

NonEmptyCells(grid) == {c \in DOMAIN grid : grid[c] # EMPTY_CELL}

\* C15: in a rendering pass no digit is blitted while the game is paused;
\* otherwise exactly eleven drawNumber calls are made: level, lines, score
\* and total pieces in white and one per shape in its fixed colour (L
\* orange, I cyan, T purple, S green, Z red, O yellow, J blue), each showing
\* the count of that shape.  Background and tiles are drawn in both cases.
C15_HudUnlessPaused ==
    SawChanged =>
        /\ game.isPaused => DigitBlits = {}
        /\ ~game.isPaused =>
              /\ Cardinality({calls[k].n : k \in DigitBlits}) = 11
              /\ {<<calls[k].field, calls[k].color, calls[k].value>> : k \in DigitBlits}
                    = HudTable
              /\ \A k1, k2 \in DigitBlits :
                    calls[k1].field = calls[k2].field => calls[k1].n = calls[k2].n
        /\ Count(calls, "drawBackground") = 1
        /\ CellsDrawn("board") = NonEmptyCells(game.board)
        /\ CellsDrawn("falling") = NonEmptyCells(game.fallingBlock.cells)

\* a frame of a running game whose seven shape counts all differ
C15_Witness ==
    /\ SawChanged /\ ~game.isPaused
    /\ \A s1, s2 \in Shapes :
          s1 # s2 => game.stats.pieces[s1] # game.stats.pieces[s2]
    /\ DigitBlits # {}

\* the place of a part of the frame in the drawing order
PartRank(p) ==
    CASE p = "background" -> 1
      [] p = "preview" -> 2
      [] p = "ghost" -> 3
      [] p = "board" -> 4
      [] p = "falling" -> 5
      [] OTHER -> 6

\* C16: in a rendering pass the background is blitted first, then the
\* preview tiles, the ghost tiles, the board tiles, the tiles of the
\* falling piece and the HUD digits, in that order.
C16_DrawingOrder ==
    SawChanged =>
        /\ calls[2].op = "drawBackground"
        /\ \A a, b \in Where(IsBlit) :
              a < b => PartRank(calls[a].part) <= PartRank(calls[b].part)

\* a frame that has tiles of all four grids and digits
C16_Witness ==
    /\ SawChanged
    /\ \A p \in Parts : CellsDrawn(p) # {}
    /\ DigitBlits # {}
    /\ NonEmptyCells(game.board) # {}

\* C17: preview tiles are blitted iff showPreview(); ghost tiles iff the
\* ghost option is built in, showShadow() and shadowGap() > 0; neither
\* changes the board and falling-piece tiles; each ghost tile is in the
\* column of its falling-piece tile and shadowGap() rows below it.
C17_PreviewAndGhostToggles ==
    SawChanged =>
        /\ CellsDrawn("preview") # {} <=> game.showPreview
        /\ CellsDrawn("ghost") # {}
              <=> (ghostBuilt /\ game.showShadow /\ game.shadowGap > 0)
        /\ CellsDrawn("board") = NonEmptyCells(game.board)
        /\ CellsDrawn("falling") = NonEmptyCells(game.fallingBlock.cells)
        /\ \A k \in Where(LAMBDA e : e.op = "drawTile" /\ e.part = "ghost") :
              \E f \in Where(LAMBDA e : e.op = "drawTile" /\ e.part = "falling") :
                  /\ calls[f].i = calls[k].i /\ calls[f].j = calls[k].j
                  /\ calls[k].blit.dx = calls[f].blit.dx
                  /\ calls[k].blit.dy
                        = calls[f].blit.dy + TILE_SIZE * game.shadowGap

\* a frame with the ghost two rows below the piece and no preview
C17_Witness ==
    /\ SawChanged
    /\ ~game.showPreview /\ CellsDrawn("preview") = {}
    /\ game.shadowGap = 2 /\ CellsDrawn("ghost") # {}

(***************************************************************************)
(* Properties of the render loop (SpecLoop).                               *)
(***************************************************************************)
\* the last renderGame() call drew and flipped a full frame
FrameRendered ==
    /\ Count(calls, "drawBackground") = 1
    /\ Count(calls, "SDL_Flip") = 1

\* C3: over renderGame() calls interleaved with changes of the Engine, a
\* frame is rendered and flipped in a call if and only if the dirty flag is
\* set at its hasChanged() query; every set flag is acknowledged exactly
\* once, before the next query, so flips, acknowledgments and queries
\* answered true are equally many and no change is left unpresented by the
\* call that follows it.
C3_RenderIffDirtyAckOnce ==
    /\ calls # <<>> => (FrameRendered <=> SawChanged)
    /\ calls # <<>> => ~game.changed
    /\ nFlip = nAck
    /\ nAck = nQueryTrue
    /\ nSet = nAck + (IF game.changed THEN 1 ELSE 0)

\* three calls, two of them after a change and one with nothing changed
C3_Witness ==
    /\ iterations = 3 /\ nSet = 2 /\ nFlip = 2 /\ nAck = 2
    /\ calls # <<>>

\* C14: every renderGame() call sleeps exactly once, for the fixed delay,
\* whether or not it rendered a frame, and after the flip when it did; so
\* calls that all find the Engine unchanged give no flip and one sleep each.
C14_OneSleepPerCall ==
    /\ calls # <<>> =>
          /\ Count(calls, "SDL_Delay") = 1
          /\ calls[Len(calls)].op = "SDL_Delay"
          /\ calls[Len(calls)].ms = SLEEP_TIME
          /\ \A f \in 1 .. Len(calls) : calls[f].op = "SDL_Flip" => f < Len(calls)
    /\ nSleep = iterations
    /\ nQueryTrue = 0 => nFlip = 0

\* three calls in a row over an unchanged Engine: no flip, three sleeps
C14_Witness ==
    /\ iterations = 3 /\ nSet = 0 /\ nFlip = 0 /\ nSleep = 3
    /\ SawUnchanged

(***************************************************************************)
(* Properties of drawNumber() (SpecNumber).                                *)
(***************************************************************************)
RECURSIVE Pow10(_)
Pow10(k) == IF k = 0 THEN 1 ELSE 10 * Pow10(k - 1)

\* C7: drawNumber issues exactly digitCount glyph blits, for zero, for
\* values of fewer digits than digitCount and for values of more digits.
C7_ExactlyDigitCountBlits ==
    glyphs # <<>> => Len(glyphs) = number.length

\* a call with a value of more digits than the field
C7_Witness ==
    /\ Len(glyphs) = 2
    /\ number.length = 2 /\ number.value >= 100

\* C8: the k-th glyph blit (k = 0, 1, ...) shows decimal digit
\* floor(value / 10^k) mod 10, from the atlas row of the colour, and each
\* blit is placed one digit width to the left of the one before.
C8_DigitsRightToLeft ==
    \A k \in 1 .. Len(glyphs) :
        /\ glyphs[k].sx = NUMBER_WIDTH * ((number.value \div Pow10(k - 1)) % 10)
        /\ glyphs[k].sy = NUMBER_HEIGHT * number.color
        /\ k > 1 => glyphs[k].dx = glyphs[k - 1].dx - NUMBER_WIDTH
        /\ k > 1 => glyphs[k].dy = glyphs[k - 1].dy

\* drawNumber(x, y, 7, 3, colour): digits 7, 0, 0 from right to left
C8_Witness ==
    /\ number.value = 7 /\ number.length = 3 /\ number.color = COLOR_ORANGE
    /\ Len(glyphs) = 3
    /\ glyphs[1].sx = 7 * NUMBER_WIDTH /\ glyphs[2].sx = 0 /\ glyphs[3].sx = 0
    /\ glyphs[3].dx < glyphs[2].dx /\ glyphs[2].dx < glyphs[1].dx

(***************************************************************************)
(* Properties of processEvents() (SpecInput).                              *)
(***************************************************************************)
\* the fixed key table: key-down to the type of its START event
KeyDownTable ==
    {<<"SDLK_ESCAPE", "EVENT_QUIT">>,
     <<"SDLK_DOWN", "EVENT_MOVE_DOWN">>, <<"SDLK_s", "EVENT_MOVE_DOWN">>,
     <<"SDLK_UP", "EVENT_ROTATE_CW">>, <<"SDLK_w", "EVENT_ROTATE_CW">>,
     <<"SDLK_LEFT", "EVENT_MOVE_LEFT">>, <<"SDLK_a", "EVENT_MOVE_LEFT">>,
     <<"SDLK_RIGHT", "EVENT_MOVE_RIGHT">>, <<"SDLK_d", "EVENT_MOVE_RIGHT">>,
     <<"SDLK_SPACE", "EVENT_DROP">>, <<"SDLK_F5", "EVENT_RESTART">>,
     <<"SDLK_F1", "EVENT_PAUSE">>, <<"SDLK_F2", "EVENT_SHOW_NEXT">>}
    \cup (IF ghostBuilt THEN {<<"SDLK_F3", "EVENT_SHOW_SHADOW">>} ELSE {})

\* the keys whose key-up delivers an END event
HeldKeys ==
    {"SDLK_DOWN", "SDLK_s", "SDLK_LEFT", "SDLK_a", "SDLK_RIGHT", "SDLK_d"}
    \cup (IF autoRotation THEN {"SDLK_UP", "SDLK_w"} ELSE {})

\* what the table gives for one record
TableEvents(r) ==
    IF r.type = "SDL_QUIT" THEN <<[phase |-> "START", type |-> "EVENT_QUIT"]>>
    ELSE IF r.type = "SDL_KEYDOWN" /\ \E kt \in KeyDownTable : kt[1] = r.sym
    THEN <<[phase |-> "START",
            type |-> (CHOOSE kt \in KeyDownTable : kt[1] = r.sym)[2]]>>
    ELSE IF r.type = "SDL_KEYUP" /\ r.sym \in HeldKeys
    THEN <<[phase |-> "END",
            type |-> (CHOOSE kt \in KeyDownTable : kt[1] = r.sym)[2]]>>
    ELSE <<>>

\* C4: processEvents() maps a record by the fixed table: one START for a
\* quit signal and for the key-down of a mapped key, one END of the same
\* type for the key-up of a held-action key, nothing for any other record.
C4_FixedKeyTable ==
    Len(consumed) = 1 => events = TableEvents(consumed[1])

\* the key-up of a key that is mapped on key-down only: no event
C4_Witness ==
    /\ consumed = <<[type |-> "SDL_KEYUP", sym |-> "SDLK_SPACE"]>>
    /\ events = <<>>

RECURSIVE TableEventsOf(_)
TableEventsOf(rs) ==
    IF rs = <<>> THEN <<>> ELSE TableEvents(Head(rs)) \o TableEventsOf(Tail(rs))

\* C5: the events processEvents() delivers are those of the records of the
\* queue, in the order of the records, each mapped record forwarded once
\* and none kept for a later call or merged with another.
C5_InOrderExactlyOnce ==
    consumed # <<>> => /\ events = TableEventsOf(consumed)
                       /\ queue = <<>>

\* two key-downs of the same key drained in one call: two STARTs
C5_Witness ==
    /\ consumed = <<[type |-> "SDL_KEYDOWN", sym |-> "SDLK_LEFT"],
                    [type |-> "SDL_KEYDOWN", sym |-> "SDLK_LEFT"]>>
    /\ events = <<[phase |-> "START", type |-> "EVENT_MOVE_LEFT"],
                  [phase |-> "START", type |-> "EVENT_MOVE_LEFT"]>>

(***************************************************************************)
(* Properties of init() (SpecInit).                                        *)
(***************************************************************************)
\* the kind of step of init() a platform call belongs to
StepKind(c) ==
    CASE c = "SDL_Init" -> "platform init"
      [] c = "SDL_SetVideoMode" -> "surface creation"
      [] c \in {"IMG_Load_tiles", "IMG_Load_back", "IMG_Load_numbers"} -> "image loading"
      [] c = "Mix_OpenAudio" -> "mixer opening"
      [] c \in {"Mix_LoadMUS", "Mix_LoadWAV_line", "Mix_LoadWAV_drop"} -> "audio loading"
      [] OTHER -> "music start"

\* the platform calls of init() in their fixed order
InitOrder ==
    <<"SDL_Init", "SDL_SetVideoMode", "IMG_Load_tiles", "IMG_Load_back",
      "IMG_Load_numbers", "Mix_OpenAudio", "Mix_LoadMUS", "Mix_LoadWAV_line",
      "Mix_LoadWAV_drop", "Mix_PlayMusic">>

FailedSteps == {k \in 1 .. Len(steps) : ~steps[k].ok}

\* C9: when an audio asset (music, line-clear sound, piece-drop sound)
\* fails to load, init() does not return ERROR_NONE and no loop iteration
\* runs.
C9_AudioLoadFailureReported ==
    (\E k \in FailedSteps : StepKind(steps[k].call) = "audio loading")
        => initResult # ERROR_NONE /\ iterations = 0

\* C10: init() runs its steps in the fixed order, returns at the first
\* step that fails without running a later step, with the status of that
\* kind of step, and returns ERROR_NONE only when no step failed.
C10_FailFastDistinctStatus ==
    initResult # "" =>
        /\ Len(steps) <= Len(InitOrder)
        /\ \A k \in 1 .. Len(steps) : steps[k].call = InitOrder[k]
        /\ \A k \in FailedSteps : \A m \in k .. Len(steps) :
              StepKind(steps[m].call) = StepKind(steps[k].call)
        /\ \A k \in FailedSteps :
              /\ StepKind(steps[k].call) = "platform init"
                    => initResult = ERROR_PLATFORM
              /\ StepKind(steps[k].call) = "surface creation"
                    => initResult = ERROR_NO_VIDEO
              /\ StepKind(steps[k].call) = "image loading"
                    => initResult = ERROR_NO_IMAGES
        /\ initResult = ERROR_NONE <=> FailedSteps = {}

\* the part of C10 that does not rest on the audio assets: it holds when
\* every audio asset loads
C10_WhenAudioLoads ==
    (\A k \in FailedSteps : StepKind(steps[k].call) # "audio loading"
                            /\ StepKind(steps[k].call) # "music start")
        => C10_FailFastDistinctStatus

(***************************************************************************)
(* Properties of end() (SpecLife).                                         *)
(***************************************************************************)
\* the handles init() acquires
Handles == {"mScreen", "mBmpTiles", "mBmpBack", "mBmpNumbers",
            "mMusic", "mSoundLine", "mSoundDrop"}

\* C11: after a successful init() followed by one end(), every handle
\* init() acquired (the surface, the three images, the music and the two
\* sounds) has been released.
C11_EveryHandleReleased ==
    (life = <<"init", "end">> /\ initResult = ERROR_NONE)
        => \A h \in Handles : plat[h] # "live"

\* C12: after init() failed, end() applies a release or close operation
\* only to a handle that was acquired and to a subsystem that was opened.
C12_ReleaseOnlyAcquired ==
    (life = <<"init", "end">> /\ initResult # ERROR_NONE)
        => \A k \in 1 .. Len(releases) :
              releases[k].was \in {"live", "open", "up"}

\* C13: over any sequence of init() and end() calls no handle is released
\* more than once.
C13_NoDoubleRelease ==
    \A k \in 1 .. Len(releases) : releases[k].was # "freed"

(***************************************************************************)
(* processEvents() returns: claim C18, under SpecInput.                    *)
(***************************************************************************)
\* C18: processEvents() never waits. A call made with a finite queue and no
\* new arrival polls every pending record and once more, returns with the
\* queue empty, and, made with the queue already empty, returns after the
\* one poll having delivered no event.
C18_DrainsAndReturns ==
    [][polls' > 0 =>
          /\ consumed' = queue
          /\ queue' = <<>>
          /\ polls' = Len(queue) + 1
          /\ (queue = <<>> => events' = <<>>)]_vars

\* a call that found two records and returned after the third poll
C18_Witness ==
    /\ polls = 3
    /\ Len(consumed) = 2
    /\ queue = <<>>

\* a call that found the queue empty
C18_EmptyQueueWitness ==
    /\ polls = 1
    /\ consumed = <<>>
    /\ events = <<>>


(***************************************************************************)
(* SpecMainLoop: the caller's loop around the adapter: processEvents(),    *)
(* the Engine's update, renderGame(), with quit records among the input.   *)
(***************************************************************************)
QuitRecords ==
    {[type |-> "SDL_QUIT", sym |-> ""],
     [type |-> "SDL_KEYDOWN", sym |-> "SDLK_ESCAPE"],
     [type |-> "SDL_KEYDOWN", sym |-> "SDLK_LEFT"],
     [type |-> "SDL_KEYUP", sym |-> "SDLK_LEFT"],
     [type |-> "SDL_KEYDOWN", sym |-> "SDLK_SPACE"]}

InitMainLoop ==
    /\ ghostBuilt = FALSE
    /\ autoRotation = FALSE
    /\ IdleRender /\ IdleInput /\ IdleNumber /\ IdlePlatform /\ IdleCounters

NextMainLoop ==
    \/ PushEventOf(QuitRecords) /\ NoCounters
    \/ ProcessEvents /\ NoCounters
    \/ EngineChangeTo(LoopGameStates) /\ NoCounters
    \/ EngineIdle /\ NoCounters
    \/ RenderGame /\ NoCounters

SpecMainLoop == InitMainLoop /\ [][NextMainLoop]_vars

(***************************************************************************)
(* A quit is one more event: claim C19, under SpecMainLoop.                *)
(***************************************************************************)
IsQuitRecord(r) ==
    \/ r.type = "SDL_QUIT"
    \/ r.type = "SDL_KEYDOWN" /\ r.sym = "SDLK_ESCAPE"

\* C19: a quit is forwarded as an ordinary event. When the records drained
\* by one processEvents() call hold a quit record, the call has still
\* drained the whole queue, START(QUIT) stands between the events of the
\* records before it and the events of the records behind it, in order, and
\* the renderGame() call that follows does what it does in any iteration:
\* one hasChanged() query, a frame with one acknowledgment if and only if
\* the Engine changed, and one delay.
C19_QuitIsOrdinary ==
    \A k \in 1 .. Len(consumed) :
        IsQuitRecord(consumed[k]) =>
            /\ queue = <<>>
            /\ events = TableEventsOf(SubSeq(consumed, 1, k - 1))
                          \o <<[phase |-> "START", type |-> "EVENT_QUIT"]>>
                          \o TableEventsOf(SubSeq(consumed, k + 1, Len(consumed)))
            /\ calls # <<>> =>
                   /\ Count(calls, "hasChanged") = 1
                   /\ FrameRendered <=> SawChanged
                   /\ Count(calls, "onChangeProcessed") = (IF SawChanged THEN 1 ELSE 0)
                   /\ Count(calls, "SDL_Delay") = 1
                   /\ calls[Len(calls)].op = "SDL_Delay"

\* a drain of a quit with a key-down queued behind it, then a frame
C19_Witness ==
    /\ consumed = <<[type |-> "SDL_QUIT", sym |-> ""],
                    [type |-> "SDL_KEYDOWN", sym |-> "SDLK_LEFT"]>>
    /\ events = <<[phase |-> "START", type |-> "EVENT_QUIT"],
                  [phase |-> "START", type |-> "EVENT_MOVE_LEFT"]>>
    /\ SawChanged
    /\ FrameRendered


(***************************************************************************)
(* SpecKeys: processEvents() against a keyboard: the six keys of the three *)
(* held actions go down and up in alternation, all up at the start.        *)
(***************************************************************************)
InitKeys == InitInput

NextKeys ==
    \/ KeyTransition /\ NoCounters
    \/ ProcessEvents /\ NoCounters

SpecKeys == InitKeys /\ [][NextKeys]_vars

(***************************************************************************)
(* Aliased keys and END events: claim C20, under SpecKeys.                 *)
(***************************************************************************)
\* the action a key of the table is mapped to
ActionOf(k) == (CHOOSE kt \in KeyDownTable : kt[1] = k)[2]

IsAliasKeyUp(r) == r.type = "SDL_KEYUP" /\ r.sym \in AliasKeys
IsEnd(e) == e.phase = "END"

\* C20 as stated: an END(X) is delivered only when no key mapped to X is
\* still physically held. Read on the calls that drain one record, where the
\* keys held at the delivery are the keys held after the transition drained.
C20_EndOnlyWhenNoAliasHeld ==
    (Len(consumed) = 1 /\ Len(events) = 1 /\ IsEnd(events[1])) =>
        \A k \in held : ActionOf(k) # events[1].type

\* C20, amended: starting with all keys released and each key alternating
\* down/up, the END events of a processEvents() call are those of the
\* key-ups of the six held-action keys it drained, one END of the key's
\* action for each, in order, whether or not the other key mapped to that
\* action is still held.
C20_EndOnEveryAliasKeyUp ==
    consumed # <<>> =>
        LET ups == SelectSeq(consumed, IsAliasKeyUp)
            ends == SelectSeq(events, IsEnd)
        IN  /\ Len(ends) = Len(ups)
            /\ \A k \in 1 .. Len(ups) : ends[k].type = ActionOf(ups[k].sym)

\* the letter key a goes up while the left arrow stays down: END(MOVE_LEFT)
C20_Witness ==
    /\ consumed = <<[type |-> "SDL_KEYUP", sym |-> "SDLK_a"]>>
    /\ "SDLK_LEFT" \in held
    /\ events = <<[phase |-> "END", type |-> "EVENT_MOVE_LEFT"]>>

=============================================================================
